---- MODULE Spec2Model ----
(***************************************************************************)
(* log4cplus PatternLayout (src/log4cplus/src/patternlayout.cxx).          *)
(*                                                                         *)
(* A std::string is a sequence of one-character strings.  Positions keep   *)
(* the source's 0-based convention: the character at C++ index i of s is   *)
(* s[i+1].                                                                 *)
(***************************************************************************)
EXTENDS Integers, Sequences, FiniteSets, TLC

VARIABLES
    pattern,         \* PatternParser::pattern / PatternLayout::pattern
    pos,             \* PatternParser::pos
    state,           \* PatternParser::state
    currentLiteral,  \* PatternParser::currentLiteral
    formattingInfo,  \* PatternParser::formattingInfo
    list,            \* PatternParser::list
    parsedPattern,   \* PatternLayout::parsedPattern
    diag,            \* the messages handed to getLogLog(), in order
    pc,              \* where PatternLayout::init / formatAndAppend stands
    event,           \* the InternalLoggingEvent of the last render call
    output,          \* the std::ostream of the last render call
    platform,        \* the build: CLOCKS_PER_SEC and what its undefined
                     \* operations do
    tmbuf,           \* the static struct tm that gmtime / localtime return
    calls            \* the formatAndAppend call of every thread

vars == <<pattern, pos, state, currentLiteral, formattingInfo, list,
          parsedPattern, diag, pc, event, output, platform, tmbuf, calls>>

-----------------------------------------------------------------------------
(* Bounds of the model.                                                    *)

MaxPatLen == 4
MaxStrLen == 3
MaxNameLen == 4
MaxWidth == 3
MaxPrecision == 3

-----------------------------------------------------------------------------
(* Program constants.                                                      *)

ESCAPE_CHAR == "%"
MILLIS_PER_SEC == 1000
BUFFER_SIZE == 30
INT_MAX == 2147483647
CLOCKS_PER_SEC == 1000000
\* A null const char* (event.file) and a null PatternConverter*.
NULL_FILE == <<"NULL">>
NULL_CONVERTER == [kind |-> "NULL"]
NPOS == -1     \* std::string::npos once stored in an int

\* The platforms a build of the file can be made for.  CLOCKS_PER_SEC is
\* 1000000 on POSIX systems and below MILLIS_PER_SEC on some older ones.
\* A signed overflow and an integer division by zero are undefined: a build
\* either wraps the overflowing int or traps on it, and either traps on
\* the division or leaves a zero quotient.
ClockRates == {100, MILLIS_PER_SEC, CLOCKS_PER_SEC}

Platforms ==
    [clocks_per_sec : ClockRates, overflow : {"wrap", "trap"},
     divide_by_zero : {"trap", "zero"}]

UsualPlatform ==
    [clocks_per_sec |-> CLOCKS_PER_SEC, overflow |-> "wrap",
     divide_by_zero |-> "trap"]

-----------------------------------------------------------------------------
(* std::string helpers.                                                    *)

\* s.substr(p): the characters from index p to the end.
substr(s, p) == SubSeq(s, p + 1, Len(s))

\* s.substr(p, n): at most n characters from index p.
substrn(s, p, n) ==
    SubSeq(s, p + 1, IF p + n > Len(s) THEN Len(s) ELSE p + n)

\* std::string(n, ' ')
spaces(n) == [i \in 1..n |-> " "]

\* s.rfind(ch, p) with p the int the caller computed.  The parameter is a
\* size_t: a negative int converts to a value above every string length, so
\* the search starts at the last character.  The result is what the caller
\* stores in an int: the index found, or npos (-1).
rfind(s, ch, p) ==
    LET start == IF p < 0 \/ p >= Len(s) THEN Len(s) - 1 ELSE p
        hits == {i \in 0..start : s[i + 1] = ch}
    IN  IF hits = {} THEN NPOS
        ELSE CHOOSE i \in hits : \A j \in hits : j <= i

\* s.find_first_of(ch, p), stored in an int.
find_first_of(s, ch, p) ==
    LET hits == {i \in p..(Len(s) - 1) : s[i + 1] = ch}
    IN  IF hits = {} THEN NPOS
        ELSE CHOOSE i \in hits : \A j \in hits : i <= j

Digits == {"0", "1", "2", "3", "4", "5", "6", "7", "8", "9"}

\* c - '0'
DigitVal(c) ==
    CASE c = "0" -> 0 [] c = "1" -> 1 [] c = "2" -> 2 [] c = "3" -> 3
      [] c = "4" -> 4 [] c = "5" -> 5 [] c = "6" -> 6 [] c = "7" -> 7
      [] c = "8" -> 8 [] c = "9" -> 9

DigitChar(d) ==
    CASE d = 0 -> "0" [] d = 1 -> "1" [] d = 2 -> "2" [] d = 3 -> "3"
      [] d = 4 -> "4" [] d = 5 -> "5" [] d = 6 -> "6" [] d = 7 -> "7"
      [] d = 8 -> "8" [] d = 9 -> "9"

\* operator<<(ostream&, integer): decimal text.
RECURSIVE DecNat(_)
DecNat(n) == IF n < 10 THEN <<DigitChar(n)>>
             ELSE Append(DecNat(n \div 10), DigitChar(n % 10))

ToDec(n) == IF n < 0 THEN <<"-">> \o DecNat(-n) ELSE DecNat(n)

\* atoi: leading white space, an optional sign, then the digits.
RECURSIVE AtoiDigits(_, _)
AtoiDigits(s, acc) ==
    IF s = <<>> \/ Head(s) \notin Digits THEN acc
    ELSE AtoiDigits(Tail(s), acc * 10 + DigitVal(Head(s)))

RECURSIVE atoi(_)
atoi(s) ==
    IF s = <<>> THEN 0
    ELSE IF Head(s) \in {" ", "\n"} THEN atoi(Tail(s))
    ELSE IF Head(s) = "-" THEN -AtoiDigits(Tail(s), 0)
    ELSE IF Head(s) = "+" THEN AtoiDigits(Tail(s), 0)
    ELSE AtoiDigits(s, 0)

\* The int expression v * 10 + d as a 32-bit two's complement machine
\* computes it, on the two 16-bit halves of v.
MulAdd10(v, d) ==
    LET lo == v % 65536
        hi == (v \div 65536) % 65536
        l == lo * 10 + d
        h == (hi * 10 + (l \div 65536)) % 65536
    IN  (IF h >= 32768 THEN h - 65536 ELSE h) * 65536 + (l % 65536)

\* Whether v * 10 or v * 10 + d leaves the range of int.
MulAddOverflows(v, d) ==
    \/ v > INT_MAX \div 10
    \/ v = INT_MAX \div 10 /\ d > INT_MAX % 10
    \/ v < -(INT_MAX \div 10)

-----------------------------------------------------------------------------
(* FormattingInfo and the converters.                                      *)

\* FormattingInfo::reset
FormattingInfoReset == [minLen |-> -1, maxLen |-> INT_MAX, leftAlign |-> FALSE]

\* LiteralPatternConverter(str): PatternConverter(FormattingInfo())
LiteralPatternConverter(str) ==
    [kind |-> "Literal", minLen |-> FormattingInfoReset.minLen,
     maxLen |-> FormattingInfoReset.maxLen,
     leftAlign |-> FormattingInfoReset.leftAlign, str |-> str]

\* BasicPatternConverter(info, type)
BasicPatternConverter(info, type) ==
    [kind |-> "Basic", minLen |-> info.minLen, maxLen |-> info.maxLen,
     leftAlign |-> info.leftAlign, type |-> type]

\* LoggerPatternConverter(info, precision)
LoggerPatternConverter(info, precision) ==
    [kind |-> "Logger", minLen |-> info.minLen, maxLen |-> info.maxLen,
     leftAlign |-> info.leftAlign, precision |-> precision]

\* DatePatternConverter(info, pattern, use_gmtime)
DatePatternConverter(info, fmt, use_gmtime) ==
    [kind |-> "Date", minLen |-> info.minLen, maxLen |-> info.maxLen,
     leftAlign |-> info.leftAlign, format |-> fmt, use_gmtime |-> use_gmtime]

-----------------------------------------------------------------------------
(* The converters' convert() and the width law.                            *)

\* LogLevelManager::toString(event.ll): the level's name.
llmToString(ll) ==
    CASE ll = "INFO" -> <<"I", "N", "F", "O">>
      [] ll = "WARN" -> <<"W", "A", "R", "N">>
      [] ll = "ERROR" -> <<"E", "R", "R", "O", "R">>

\* The member every BasicPatternConverter is constructed with.
CLOCKS_PER_MILLIS == platform.clocks_per_sec \div MILLIS_PER_SEC

\* BasicPatternConverter::convert
BasicConvert(type, ev) ==
    CASE type = "LOGLEVEL_CONVERTER" -> llmToString(ev.ll)
      [] type = "NDC_CONVERTER" -> ev.ndc
      [] type = "MESSAGE_CONVERTER" -> ev.message
      [] type = "NEWLINE_CONVERTER" -> <<"\n">>
      [] type = "FILE_CONVERTER" ->
            IF ev.file # NULL_FILE THEN ev.file ELSE <<>>
      [] type = "RELATIVE_TIME_CONVERTER" ->
            \* a division by zero that does not trap leaves the quotient 0
            IF CLOCKS_PER_MILLIS = 0 THEN ToDec(0)
            ELSE ToDec(ev.clock_ticks \div CLOCKS_PER_MILLIS)
      [] type = "THREAD_CONVERTER" -> ToDec(ev.thread)
      [] type = "LINE_CONVERTER" ->
            IF ev.line # -1 THEN ToDec(ev.line) ELSE <<>>
      [] type = "FULL_LOCATION_CONVERTER" ->
            IF ev.file # NULL_FILE THEN ev.file \o <<":">> \o ToDec(ev.line)
            ELSE <<":">>

\* LoggerWalk starting every search at end instead of end - 1.
RECURSIVE LoggerWalkFromEnd(_, _, _)
LoggerWalkFromEnd(name, end, i) ==
    IF i <= 0 THEN end
    ELSE LET e == rfind(name, ".", end)
         IN  IF e = NPOS THEN NPOS ELSE LoggerWalkFromEnd(name, e, i - 1)

\* The loop of LoggerPatternConverter::convert: i iterations left, end as
\* the int the code holds.  The result is the index the suffix starts
\* after, or npos when the code returns the whole name.
RECURSIVE LoggerWalk(_, _, _)
LoggerWalk(name, end, i) ==
    IF i <= 0 THEN end
    ELSE LET e == rfind(name, ".", end - 1)
         IN  IF e = NPOS THEN NPOS ELSE LoggerWalk(name, e, i - 1)

\* LoggerPatternConverter::convert
LoggerConvert(name, precision) ==
    IF precision <= 0 THEN name
    ELSE LET end == LoggerWalk(name, Len(name) - 1, precision)
         IN  IF end = NPOS THEN name ELSE substr(name, end + 1)

\* Two decimal digits of a calendar field.
TwoDigits(n) == <<DigitChar(n \div 10), DigitChar(n % 10)>>

\* gmtime / localtime of a time of day on 1970-01-01; localtime is gmtime
\* shifted by the zone's offset, which is part of the event's environment.
BrokenDownTime(ev, use_gmtime) ==
    LET t == IF use_gmtime THEN ev.timestamp ELSE ev.timestamp + ev.tzoffset
    IN  [year |-> 1970, mon |-> 1, mday |-> 1,
         hour |-> t \div 3600, min |-> (t % 3600) \div 60, sec |-> t % 60]

\* Whether every conversion of a strftime format is one of %Y %m %d %H %M
\* %S %%, the conversions modelled here.
RECURSIVE strftimeKnown(_)
strftimeKnown(fmt) ==
    IF fmt = <<>> THEN TRUE
    ELSE IF Head(fmt) # "%" THEN strftimeKnown(Tail(fmt))
    ELSE /\ Len(fmt) >= 2
         /\ fmt[2] \in {"Y", "m", "d", "H", "M", "S", "%"}
         /\ strftimeKnown(SubSeq(fmt, 3, Len(fmt)))

\* strftime's text for a format of known conversions and ordinary
\* characters.
RECURSIVE strftimeText(_, _)
strftimeText(fmt, tm) ==
    IF fmt = <<>> THEN <<>>
    ELSE IF Head(fmt) # "%" THEN <<Head(fmt)>> \o strftimeText(Tail(fmt), tm)
    ELSE LET f == fmt[2]
             field == CASE f = "Y" -> ToDec(tm.year)
                        [] f = "m" -> TwoDigits(tm.mon)
                        [] f = "d" -> TwoDigits(tm.mday)
                        [] f = "H" -> TwoDigits(tm.hour)
                        [] f = "M" -> TwoDigits(tm.min)
                        [] f = "S" -> TwoDigits(tm.sec)
                        [] f = "%" -> <<"%">>
         IN  field \o strftimeText(SubSeq(fmt, 3, Len(fmt)), tm)

InvalidDatePattern ==
    <<"I", "N", "V", "A", "L", "I", "D", " ", "D", "A", "T", "E", " ",
      "P", "A", "T", "T", "E", "R", "N">>

\* DatePatternConverter::convert: strftime returns 0 when the text and its
\* terminating NUL do not fit BUFFER_SIZE bytes, or when the text is empty;
\* a format with a conversion outside the modelled ones counts as rejected.
DateText(fmt, tm) ==
    LET text == IF strftimeKnown(fmt) THEN strftimeText(fmt, tm) ELSE <<>>
        result == IF Len(text) + 1 > BUFFER_SIZE THEN 0 ELSE Len(text)
    IN  IF result > 0 THEN text ELSE InvalidDatePattern

\* DatePatternConverter::convert run without interruption: strftime reads
\* the struct tm that gmtime / localtime has just filled.
DateConvert(fmt, use_gmtime, ev) ==
    DateText(fmt, BrokenDownTime(ev, use_gmtime))

\* The virtual convert(event) of a converter.
convert(conv, ev) ==
    CASE conv.kind = "Literal" -> conv.str
      [] conv.kind = "Basic" -> BasicConvert(conv.type, ev)
      [] conv.kind = "Logger" -> LoggerConvert(ev.loggerName, conv.precision)
      [] conv.kind = "Date" -> DateConvert(conv.format, conv.use_gmtime, ev)

\* Truncate keeping the head of the string instead of its tail.
TruncateHead(s, maxLen) == substrn(s, 0, maxLen)

\* The truncation of PatternConverter::formatAndAppend: s.substr(len - maxLen).
Truncate(s, maxLen) == substr(s, Len(s) - maxLen)

\* Pad with the two branches of leftAlign swapped.
PadSwapped(s, minLen, leftAlign) ==
    IF leftAlign THEN spaces(minLen - Len(s)) \o s
    ELSE s \o spaces(minLen - Len(s))

\* The padding of PatternConverter::formatAndAppend.
Pad(s, minLen, leftAlign) ==
    IF leftAlign THEN s \o spaces(minLen - Len(s))
    ELSE spaces(minLen - Len(s)) \o s

\* applyWidth that pads a truncated string up to minLen afterwards.
applyWidthTruncateThenPad(s, minLen, maxLen, leftAlign) ==
    LET t == IF Len(s) > maxLen THEN Truncate(s, maxLen) ELSE s
    IN  IF Len(t) < minLen THEN Pad(t, minLen, leftAlign) ELSE t

\* PatternConverter::formatAndAppend on the converted string s: the text it
\* appends to the output.
applyWidth(s, minLen, maxLen, leftAlign) ==
    LET len == Len(s)
    IN  IF len > maxLen THEN Truncate(s, maxLen)
        ELSE IF len < minLen THEN Pad(s, minLen, leftAlign)
        ELSE s

\* PatternConverter::formatAndAppend
ConverterFormat(conv, ev) ==
    applyWidth(convert(conv, ev), conv.minLen, conv.maxLen, conv.leftAlign)

\* PatternLayout::formatAndAppend: every converter in order, on one stream.
RECURSIVE LayoutFormat(_, _)
LayoutFormat(convs, ev) ==
    IF convs = <<>> THEN <<>>
    ELSE ConverterFormat(Head(convs), ev) \o LayoutFormat(Tail(convs), ev)

\* Whether convert() of conv divides by zero (line 311).
DividesByZero(conv) ==
    /\ conv.kind = "Basic"
    /\ conv.type = "RELATIVE_TIME_CONVERTER"
    /\ CLOCKS_PER_MILLIS = 0

\* PatternConverter::formatAndAppend of conv on the converted string s,
\* out being the text already on the stream: how it ends and the text on
\* the stream then.  A negative maxLen takes the first branch with
\* len - maxLen > len, and s.substr throws std::out_of_range; len - maxLen
\* itself overflows when it exceeds INT_MAX.
WidthRun(conv, s, out) ==
    IF conv.maxLen < 0
    THEN [pc |-> IF /\ conv.maxLen + INT_MAX < Len(s)
                    /\ platform.overflow = "trap"
                 THEN "crashed" ELSE "thrown",
          out |-> out]
    ELSE [pc |-> "rendered",
          out |-> out \o applyWidth(s, conv.minLen, conv.maxLen,
                                    conv.leftAlign)]

\* PatternLayout::formatAndAppend run without interruption over the
\* converters convs, out being the text already on the stream and tm the
\* static struct tm: how the call ends, the text on the stream and the
\* struct tm then.
RECURSIVE LayoutRun(_, _, _, _)
LayoutRun(convs, ev, out, tm) ==
    IF convs = <<>> THEN [pc |-> "rendered", out |-> out, tm |-> tm]
    ELSE LET conv == Head(convs)
             tm2 == IF conv.kind = "Date"
                    THEN BrokenDownTime(ev, conv.use_gmtime) ELSE tm
         IN  IF DividesByZero(conv) /\ platform.divide_by_zero = "trap"
             THEN [pc |-> "crashed", out |-> out, tm |-> tm]
             ELSE LET w == WidthRun(conv, convert(conv, ev), out)
                  IN  IF w.pc # "rendered"
                      THEN [pc |-> w.pc, out |-> out, tm |-> tm2]
                      ELSE LayoutRun(Tail(convs), ev, w.out, tm2)

-----------------------------------------------------------------------------
(* PatternParser.                                                          *)

\* One message on the getLogLog() channel.
LogMsg(level, text, at, ch) == [level |-> level, text |-> text, at |-> at, ch |-> ch]

\* FormattingInfo::dump
FormattingInfoDump(info) ==
    LogMsg("debug", "min=, max=, leftAlign=", info.minLen,
           IF info.leftAlign THEN "true" ELSE "false")

\* extractOption that takes the block up to the last '}' of the pattern.
extractOptionToLast(pat, p) ==
    IF p < Len(pat) /\ pat[p + 1] = "{"
    THEN LET end == rfind(pat, "}", Len(pat) - 1)
         IN  IF end > p
             THEN [opt |-> substrn(pat, p + 1, end - p - 1), pos |-> end + 1]
             ELSE [opt |-> <<>>, pos |-> p]
    ELSE [opt |-> <<>>, pos |-> p]

\* PatternParser::extractOption with pos = p: the option and the new pos.
extractOption(pat, p) ==
    IF p < Len(pat) /\ pat[p + 1] = "{"
    THEN LET end == find_first_of(pat, "}", p)
         IN  IF end > p
             THEN [opt |-> substrn(pat, p + 1, end - p - 1), pos |-> end + 1]
             ELSE [opt |-> <<>>, pos |-> p]
    ELSE [opt |-> <<>>, pos |-> p]

\* PatternParser::extractPrecisionOption
extractPrecisionOption(pat, p) ==
    LET o == extractOption(pat, p)
    IN  [r |-> IF Len(o.opt) > 0 THEN atoi(o.opt) ELSE 0, pos |-> o.pos]

DefaultDateFormat ==
    <<"%", "Y", "-", "%", "m", "-", "%", "d", " ",
      "%", "H", ":", "%", "M", ":", "%", "S">>

\* BasicType that takes 'l' for 'L' and 'L' for 'l'.
BasicTypeCaseSwapped(c) ==
    CASE c = "F" -> "FILE_CONVERTER"
      [] c = "l" -> "LINE_CONVERTER"
      [] c = "L" -> "FULL_LOCATION_CONVERTER"
      [] c = "m" -> "MESSAGE_CONVERTER"
      [] c = "n" -> "NEWLINE_CONVERTER"
      [] c = "p" -> "LOGLEVEL_CONVERTER"
      [] c = "r" -> "RELATIVE_TIME_CONVERTER"
      [] c = "t" -> "THREAD_CONVERTER"
      [] c = "x" -> "NDC_CONVERTER"

\* The BasicPatternConverter type of a specifier letter.
BasicType(c) ==
    CASE c = "F" -> "FILE_CONVERTER"
      [] c = "l" -> "FULL_LOCATION_CONVERTER"
      [] c = "L" -> "LINE_CONVERTER"
      [] c = "m" -> "MESSAGE_CONVERTER"
      [] c = "n" -> "NEWLINE_CONVERTER"
      [] c = "p" -> "LOGLEVEL_CONVERTER"
      [] c = "r" -> "RELATIVE_TIME_CONVERTER"
      [] c = "t" -> "THREAD_CONVERTER"
      [] c = "x" -> "NDC_CONVERTER"

\* The messages the BasicPatternConverter constructor logs.
BasicCtorDiag(type) ==
    IF type = "RELATIVE_TIME_CONVERTER"
       /\ platform.clocks_per_sec < MILLIS_PER_SEC
    THEN <<LogMsg("error", "RELATIVE_TIME will not display correctly", 0, "")>>
    ELSE <<>>

\* The switch of PatternParser::finalizeConverter(c), entered with pos = p,
\* currentLiteral = cl and formattingInfo = info: the converter pc, the new
\* pos and the messages logged.
finalizeSwitch(c, pat, p, cl, info) ==
    IF c = "c" THEN
        LET o == extractPrecisionOption(pat, p)
        IN  [pc |-> LoggerPatternConverter(info, o.r), pos |-> o.pos,
             log |-> <<LogMsg("debug", "LOGGER converter.", 0, "")>>
                     \o <<FormattingInfoDump(info)>>]
    ELSE IF c \in {"d", "D"} THEN
        LET o == extractOption(pat, p)
            dOpt == IF Len(o.opt) = 0 THEN DefaultDateFormat ELSE o.opt
        IN  [pc |-> DatePatternConverter(info, dOpt, c = "d"), pos |-> o.pos,
             log |-> <<>>]
    ELSE IF c \in {"F", "l", "L", "m", "n", "p", "r", "t", "x"} THEN
        [pc |-> BasicPatternConverter(info, BasicType(c)), pos |-> p,
         log |-> BasicCtorDiag(BasicType(c))]
    ELSE
        [pc |-> LiteralPatternConverter(cl), pos |-> p,
         log |-> <<LogMsg("error", "Unexpected char", p, c)>>]

\* finalizeConverter without currentLiteral.resize(0).
finalizeConverterKeepLiteral(c, p, cl) ==
    LET f == finalizeSwitch(c, pattern, p, cl, formattingInfo)
    IN  /\ currentLiteral' = cl
        /\ list' = Append(list, f.pc)
        /\ state' = "LITERAL_STATE"
        /\ formattingInfo' = FormattingInfoReset
        /\ pos' = f.pos
        /\ diag' = diag \o f.log

\* PatternParser::finalizeConverter(c), called with pos = p and
\* currentLiteral = cl.
finalizeConverter(c, p, cl) ==
    LET f == finalizeSwitch(c, pattern, p, cl, formattingInfo)
    IN  /\ currentLiteral' = <<>>
        /\ list' = Append(list, f.pc)
        /\ state' = "LITERAL_STATE"
        /\ formattingInfo' = FormattingInfoReset
        /\ pos' = f.pos
        /\ diag' = diag \o f.log

\* FlushLiteral that never appends the pending literal.
FlushLiteralDropped(l, cl) == l

\* The flush of the pending literal (lines 504-509 and 584-587).
FlushLiteral(l, cl) ==
    IF Len(cl) # 0 THEN Append(l, LiteralPatternConverter(cl)) ELSE l

\* Escaped that appends the peeked character as it is.
EscapedPeek(c, peek) == peek

\* The character an escape pair appends in LITERAL_STATE: c (the escape
\* character) for %%, a newline for %n (lines 494-502).
Escaped(c, peek) == IF peek = ESCAPE_CHAR THEN c ELSE "\n"

\* One iteration of the loop of PatternParser::parse in LITERAL_STATE.
LiteralStep ==
    /\ pc = "parse" /\ pos < Len(pattern) /\ state = "LITERAL_STATE"
    /\ LET c == pattern[pos + 1]
           p == pos + 1
       IN  IF p = Len(pattern) THEN
               /\ currentLiteral' = Append(currentLiteral, c)
               /\ pos' = p
               /\ UNCHANGED <<state, formattingInfo, list>>
           ELSE IF c = ESCAPE_CHAR THEN
               IF pattern[p + 1] \in {ESCAPE_CHAR, "n"} THEN
                   /\ currentLiteral' =
                          Append(currentLiteral, Escaped(c, pattern[p + 1]))
                   /\ pos' = p + 1
                   /\ UNCHANGED <<state, formattingInfo, list>>
               ELSE
                   /\ list' = FlushLiteral(list, currentLiteral)
                   /\ currentLiteral' = <<c>>
                   /\ state' = "CONVERTER_STATE"
                   /\ formattingInfo' = FormattingInfoReset
                   /\ pos' = p
           ELSE
               /\ currentLiteral' = Append(currentLiteral, c)
               /\ pos' = p
               /\ UNCHANGED <<state, formattingInfo, list>>
    /\ UNCHANGED <<pattern, parsedPattern, diag, pc, event, output,
                   platform, tmbuf, calls>>

\* One iteration in CONVERTER_STATE.
ConverterStep ==
    /\ pc = "parse" /\ pos < Len(pattern) /\ state = "CONVERTER_STATE"
    /\ LET c == pattern[pos + 1]
           p == pos + 1
           cl == Append(currentLiteral, c)
       IN  IF c = "-" THEN
               /\ formattingInfo' = [formattingInfo EXCEPT !.leftAlign = TRUE]
               /\ currentLiteral' = cl
               /\ pos' = p
               /\ UNCHANGED <<state, list, diag>>
           ELSE IF c = "." THEN
               /\ state' = "DOT_STATE"
               /\ currentLiteral' = cl
               /\ pos' = p
               /\ UNCHANGED <<formattingInfo, list, diag>>
           ELSE IF c \in Digits THEN
               /\ formattingInfo' = [formattingInfo EXCEPT !.minLen = DigitVal(c)]
               /\ state' = "MIN_STATE"
               /\ currentLiteral' = cl
               /\ pos' = p
               /\ UNCHANGED <<list, diag>>
           ELSE finalizeConverter(c, p, cl)
    /\ UNCHANGED <<pattern, parsedPattern, pc, event, output,
                   platform, tmbuf, calls>>

\* One iteration in MIN_STATE.
MinStep ==
    /\ pc = "parse" /\ pos < Len(pattern) /\ state = "MIN_STATE"
    /\ LET c == pattern[pos + 1]
           p == pos + 1
           cl == Append(currentLiteral, c)
       IN  IF c \in Digits THEN
               /\ currentLiteral' = cl
               /\ pos' = p
               /\ IF /\ MulAddOverflows(formattingInfo.minLen, DigitVal(c))
                     /\ platform.overflow = "trap"
                  THEN /\ pc' = "crashed"
                       /\ UNCHANGED formattingInfo
                  ELSE /\ formattingInfo' =
                              [formattingInfo EXCEPT
                                  !.minLen = MulAdd10(formattingInfo.minLen,
                                                      DigitVal(c))]
                       /\ UNCHANGED pc
               /\ UNCHANGED <<state, list, diag>>
           ELSE IF c = "." THEN
               /\ state' = "DOT_STATE"
               /\ currentLiteral' = cl
               /\ pos' = p
               /\ UNCHANGED <<formattingInfo, list, diag, pc>>
           ELSE finalizeConverter(c, p, cl) /\ UNCHANGED pc
    /\ UNCHANGED <<pattern, parsedPattern, event, output,
                   platform, tmbuf, calls>>

\* One iteration in DOT_STATE.
DotStep ==
    /\ pc = "parse" /\ pos < Len(pattern) /\ state = "DOT_STATE"
    /\ LET c == pattern[pos + 1]
           p == pos + 1
       IN  /\ currentLiteral' = Append(currentLiteral, c)
           /\ pos' = p
           /\ IF c \in Digits THEN
                  /\ formattingInfo' =
                         [formattingInfo EXCEPT !.maxLen = DigitVal(c)]
                  /\ state' = "MAX_STATE"
                  /\ UNCHANGED diag
              ELSE
                  /\ diag' = Append(diag, LogMsg("error", "Was expecting digit", p, c))
                  /\ state' = "LITERAL_STATE"
                  /\ UNCHANGED formattingInfo
    /\ UNCHANGED <<pattern, list, parsedPattern, pc, event, output,
                   platform, tmbuf, calls>>

\* One iteration in MAX_STATE.
MaxStep ==
    /\ pc = "parse" /\ pos < Len(pattern) /\ state = "MAX_STATE"
    /\ LET c == pattern[pos + 1]
           p == pos + 1
           cl == Append(currentLiteral, c)
       IN  IF c \in Digits THEN
               /\ currentLiteral' = cl
               /\ pos' = p
               /\ IF /\ MulAddOverflows(formattingInfo.maxLen, DigitVal(c))
                     /\ platform.overflow = "trap"
                  THEN /\ pc' = "crashed"
                       /\ UNCHANGED formattingInfo
                  ELSE /\ formattingInfo' =
                              [formattingInfo EXCEPT
                                  !.maxLen = MulAdd10(formattingInfo.maxLen,
                                                      DigitVal(c))]
                       /\ UNCHANGED pc
               /\ UNCHANGED <<state, list, diag>>
           ELSE finalizeConverter(c, p, cl) /\ UNCHANGED pc
    /\ UNCHANGED <<pattern, parsedPattern, event, output,
                   platform, tmbuf, calls>>

\* The end of PatternParser::parse: the last flush and the return into
\* PatternLayout::parsedPattern (line 741).
ParseReturn ==
    /\ pc = "parse" /\ pos >= Len(pattern)
    /\ list' = FlushLiteral(list, currentLiteral)
    /\ parsedPattern' = list'
    /\ pc' = "validate"
    /\ UNCHANGED <<pattern, pos, state, currentLiteral, formattingInfo, diag,
                   event, output, platform, tmbuf, calls>>

-----------------------------------------------------------------------------
(* PatternLayout.                                                          *)

\* The loop of PatternLayout::init over the parsed pattern: a null slot
\* becomes an empty literal.
ReplaceNulls(convs) ==
    [i \in 1..Len(convs) |->
        IF convs[i] = NULL_CONVERTER THEN LiteralPatternConverter(<<>>)
        ELSE convs[i]]

NullDiag(convs) ==
    [i \in 1..Cardinality({j \in 1..Len(convs) : convs[j] = NULL_CONVERTER}) |->
        LogMsg("error", "Parsed Pattern created a NULL PatternConverter", 0, "")]

\* Validate without the substitution for an empty parsed pattern.
ValidateKeepsEmpty ==
    /\ pc = "validate"
    /\ parsedPattern' = ReplaceNulls(parsedPattern)
    /\ diag' = diag \o NullDiag(parsedPattern)
    /\ pc' = "ready"
    /\ UNCHANGED <<pattern, pos, state, currentLiteral, formattingInfo, list,
                   event, output, platform, tmbuf, calls>>

\* The rest of PatternLayout::init after the parse (lines 743-760).
Validate ==
    /\ pc = "validate"
    /\ LET fixed == ReplaceNulls(parsedPattern)
       IN  IF Len(fixed) = 0 THEN
               /\ parsedPattern' =
                      <<BasicPatternConverter(FormattingInfoReset,
                                              "MESSAGE_CONVERTER")>>
               /\ diag' = diag \o NullDiag(parsedPattern) \o
                      <<LogMsg("warn", "PatternLayout pattern is empty.  Using default...", 0, "")>>
           ELSE
               /\ parsedPattern' = fixed
               /\ diag' = diag \o NullDiag(parsedPattern)
    /\ pc' = "ready"
    /\ UNCHANGED <<pattern, pos, state, currentLiteral, formattingInfo, list,
                   event, output, platform, tmbuf, calls>>

-----------------------------------------------------------------------------
(* PatternParser::parse and PatternLayout::init as functions of the        *)
(* pattern: the same code as the actions above, run to its end.            *)

\* A PatternParser that starts with the pending literal and the state of
\* an earlier parse.
NewPatternParserStale(pat) ==
    [pattern |-> pat, pos |-> 0, state |-> "CONVERTER_STATE",
     currentLiteral |-> <<"%">>, formattingInfo |-> FormattingInfoReset,
     list |-> <<>>, diag |-> <<>>, pc |-> "parse"]

\* PatternParser(pattern): the data members after construction.
NewPatternParser(pat) ==
    [pattern |-> pat, pos |-> 0, state |-> "LITERAL_STATE",
     currentLiteral |-> <<>>, formattingInfo |-> FormattingInfoReset,
     list |-> <<>>, diag |-> <<>>, pc |-> "parse"]

\* finalizeConverter(c) on the parser ps, called with pos = p and
\* currentLiteral = cl.
Finalize(ps, c, p, cl) ==
    LET f == finalizeSwitch(c, ps.pattern, p, cl, ps.formattingInfo)
    IN  [ps EXCEPT !.currentLiteral = <<>>,
                   !.list = Append(@, f.pc),
                   !.state = "LITERAL_STATE",
                   !.formattingInfo = FormattingInfoReset,
                   !.pos = f.pos,
                   !.diag = @ \o f.log]

\* The accumulation of one more digit d into the width v of MIN_STATE or
\* MAX_STATE: the new width, or the trap of the build.
Accumulate(v, d) ==
    IF MulAddOverflows(v, d) /\ platform.overflow = "trap"
    THEN [pc |-> "crashed", v |-> v]
    ELSE [pc |-> "parse", v |-> MulAdd10(v, d)]

\* One iteration of the loop of PatternParser::parse on the parser ps.
ParseIteration(ps) ==
    LET c == ps.pattern[ps.pos + 1]
        p == ps.pos + 1
        cl == Append(ps.currentLiteral, c)
        info == ps.formattingInfo
        read == [ps EXCEPT !.currentLiteral = cl, !.pos = p]
    IN  CASE ps.state = "LITERAL_STATE" ->
               IF p = Len(ps.pattern) THEN read
               ELSE IF c = ESCAPE_CHAR THEN
                   IF ps.pattern[p + 1] \in {ESCAPE_CHAR, "n"}
                   THEN [ps EXCEPT
                            !.currentLiteral =
                                Append(@, Escaped(c, ps.pattern[p + 1])),
                            !.pos = p + 1]
                   ELSE [ps EXCEPT
                            !.list = FlushLiteral(@, ps.currentLiteral),
                            !.currentLiteral = <<c>>,
                            !.state = "CONVERTER_STATE",
                            !.formattingInfo = FormattingInfoReset,
                            !.pos = p]
               ELSE read
          [] ps.state = "CONVERTER_STATE" ->
               IF c = "-"
               THEN [read EXCEPT !.formattingInfo.leftAlign = TRUE]
               ELSE IF c = "." THEN [read EXCEPT !.state = "DOT_STATE"]
               ELSE IF c \in Digits
               THEN [read EXCEPT !.formattingInfo.minLen = DigitVal(c),
                                 !.state = "MIN_STATE"]
               ELSE Finalize(ps, c, p, cl)
          [] ps.state = "MIN_STATE" ->
               IF c \in Digits
               THEN LET a == Accumulate(info.minLen, DigitVal(c))
                    IN  [read EXCEPT !.formattingInfo.minLen = a.v,
                                     !.pc = a.pc]
               ELSE IF c = "." THEN [read EXCEPT !.state = "DOT_STATE"]
               ELSE Finalize(ps, c, p, cl)
          [] ps.state = "DOT_STATE" ->
               IF c \in Digits
               THEN [read EXCEPT !.formattingInfo.maxLen = DigitVal(c),
                                 !.state = "MAX_STATE"]
               ELSE [read EXCEPT
                        !.diag = Append(@, LogMsg("error",
                                                  "Was expecting digit", p, c)),
                        !.state = "LITERAL_STATE"]
          [] ps.state = "MAX_STATE" ->
               IF c \in Digits
               THEN LET a == Accumulate(info.maxLen, DigitVal(c))
                    IN  [read EXCEPT !.formattingInfo.maxLen = a.v,
                                     !.pc = a.pc]
               ELSE Finalize(ps, c, p, cl)

\* PatternParser::parse from the parser ps on: the parser when the loop has
\* ended and the pending literal is flushed, or when the build has trapped.
RECURSIVE Parse(_)
Parse(ps) ==
    IF ps.pc # "parse" THEN ps
    ELSE IF ps.pos >= Len(ps.pattern)
    THEN [ps EXCEPT !.list = FlushLiteral(@, ps.currentLiteral),
                    !.pc = "validate"]
    ELSE Parse(ParseIteration(ps))

\* PatternLayout::init continued from the parser ps: the layout's
\* parsedPattern, with the messages logged.
InitFrom(ps) ==
    LET done == Parse(ps)
        fixed == ReplaceNulls(done.list)
    IN  IF done.pc = "crashed"
        THEN [pc |-> "crashed", parsedPattern |-> <<>>, diag |-> done.diag]
        ELSE IF Len(fixed) = 0
        THEN [pc |-> "ready",
              parsedPattern |-> <<BasicPatternConverter(FormattingInfoReset,
                                                        "MESSAGE_CONVERTER")>>,
              diag |-> done.diag \o NullDiag(done.list) \o
                  <<LogMsg("warn", "PatternLayout pattern is empty.  Using default...", 0, "")>>]
        ELSE [pc |-> "ready", parsedPattern |-> fixed,
              diag |-> done.diag \o NullDiag(done.list)]

\* PatternLayout::init(pattern) with a fresh PatternParser.
PatternLayoutInit(pat) == InitFrom(NewPatternParser(pat))

\* PatternLayout::formatAndAppend(output, ev) on a fresh stream, for an
\* event of E, by the only thread that uses the layout.
Render(E) ==
    /\ pc \in {"ready", "rendered"}
    /\ \E ev \in E :
          LET r == LayoutRun(parsedPattern, ev, <<>>, tmbuf)
          IN  /\ event' = ev
              /\ output' = r.out
              /\ tmbuf' = r.tm
              /\ pc' = r.pc
    /\ UNCHANGED <<pattern, pos, state, currentLiteral, formattingInfo, list,
                   parsedPattern, diag, platform, calls>>

\* The first render call on a layout.
RenderOnce(E) == pc = "ready" /\ Render(E)

\* Thread t calls PatternLayout::formatAndAppend(output, ev) with a stream
\* of its own, for an event of E, on the constructed layout.
FormatEnter(t, E) ==
    /\ pc = "ready"
    /\ calls[t].phase = "idle"
    /\ \E ev \in E :
          calls' = [calls EXCEPT
                       ![t] = [phase |-> "loop", ev |-> ev, i |-> 1,
                               out |-> <<>>]]
    /\ UNCHANGED <<pattern, pos, state, currentLiteral, formattingInfo, list,
                   parsedPattern, diag, pc, event, output, platform, tmbuf>>

\* Thread t runs the next converter of the loop of formatAndAppend.  A
\* DatePatternConverter first calls gmtime or localtime, which fills the
\* static struct tm and returns its address (lines 415-420); every other
\* converter converts and appends in one step.
FormatConverter(t) ==
    /\ calls[t].phase = "loop"
    /\ calls[t].i <= Len(parsedPattern)
    /\ LET conv == parsedPattern[calls[t].i]
           r == LayoutRun(<<conv>>, calls[t].ev, calls[t].out, tmbuf)
       IN  IF conv.kind = "Date" THEN
               /\ tmbuf' = BrokenDownTime(calls[t].ev, conv.use_gmtime)
               /\ calls' = [calls EXCEPT ![t].phase = "strftime"]
           ELSE
               /\ calls' = [calls EXCEPT
                                ![t].out = r.out,
                                ![t].i = @ + 1,
                                ![t].phase =
                                    IF r.pc = "rendered" THEN "loop" ELSE r.pc]
               /\ UNCHANGED tmbuf
    /\ UNCHANGED <<pattern, pos, state, currentLiteral, formattingInfo, list,
                   parsedPattern, diag, pc, event, output, platform>>

\* Thread t, in DatePatternConverter::convert, calls strftime on the
\* struct tm the pointer refers to (line 422), and the text goes through
\* PatternConverter::formatAndAppend.
FormatStrftime(t) ==
    /\ calls[t].phase = "strftime"
    /\ LET conv == parsedPattern[calls[t].i]
           w == WidthRun(conv, DateText(conv.format, tmbuf), calls[t].out)
       IN  calls' = [calls EXCEPT
                        ![t].out = w.out,
                        ![t].i = @ + 1,
                        ![t].phase =
                            IF w.pc = "rendered" THEN "loop" ELSE w.pc]
    /\ UNCHANGED <<pattern, pos, state, currentLiteral, formattingInfo, list,
                   parsedPattern, diag, pc, event, output, platform, tmbuf>>

\* Thread t leaves the loop and returns from formatAndAppend.
FormatReturn(t) ==
    /\ calls[t].phase = "loop"
    /\ calls[t].i > Len(parsedPattern)
    /\ calls' = [calls EXCEPT ![t].phase = "done"]
    /\ UNCHANGED <<pattern, pos, state, currentLiteral, formattingInfo, list,
                   parsedPattern, diag, pc, event, output, platform, tmbuf>>

-----------------------------------------------------------------------------
(* The inputs: pattern strings and logging events.                         *)

\* The characters of the exhaustively enumerated patterns: the escape, the
\* modifiers, a digit, the option braces, three specifier letters (logger,
\* message, newline) and a letter that is no specifier.
Alphabet == {"%", "-", ".", "2", "c", "m", "n", "z", "{", "}"}

SeqsUpTo(S, n) == UNION {[1..k -> S] : k \in 0..n}

ShortPatterns == SeqsUpTo(Alphabet, MaxPatLen)

EndToEndPattern ==
    <<"%", "-", "5", "p", " ", "%", "c", "{", "2", "}", ":", " ",
      "%", "m", "%", "n">>

\* Longer patterns: an option block after a width, a malformed specifier
\* followed by a well-formed one, the date converters with a closed and an
\* unclosed option block, and the other basic converters.
LongPatterns ==
    { EndToEndPattern,
      <<"%", "-", "2", ".", "2", "c", "{", "2", "}">>,
      <<"%", ".", "z", "%", "2", "m", "z">>,
      <<"z", "%", "2", "z", "%", "-", "2", "m">>,
      <<"%", "d", "{", "%", "H", ":", "%", "M", "}", " ", "%", "D">>,
      <<"%", "D", "{", "%", "H">>,
      <<"%", "F", ":", "%", "L", " ", "%", "l", " ", "%", "r", " ",
        "%", "t", " ", "%", "x", "%", "%">> }

\* The text of a specifier with the modifiers of info, the letter c and
\* the option text opt.
SpecifierText(info, c, opt) ==
    <<"%">> \o (IF info.leftAlign THEN <<"-">> ELSE <<>>)
            \o (IF info.minLen >= 0 THEN ToDec(info.minLen) ELSE <<>>)
            \o (IF info.maxLen # INT_MAX
                THEN <<".">> \o ToDec(info.maxLen) ELSE <<>>)
            \o <<c>> \o opt

FormattingInfos ==
    [minLen : {-1} \cup 0..MaxWidth,
     maxLen : 0..MaxWidth \cup {INT_MAX},
     leftAlign : BOOLEAN]

\* One message specifier for every FormattingInfo.
FormatPatterns == {SpecifierText(info, "m", <<>>) : info \in FormattingInfos}

\* One logger specifier for every precision, with and without an option.
LoggerPatterns ==
    {SpecifierText(FormattingInfoReset, "c", <<>>)} \cup
    {SpecifierText(FormattingInfoReset, "c", <<"{">> \o ToDec(k) \o <<"}">>) :
        k \in -1..MaxPrecision}

\* A logger specifier with precision 1 for every FormattingInfo.
LoggerWidthPatterns ==
    {SpecifierText(info, "c", <<"{", "1", "}">>) : info \in FormattingInfos}

RenderPatterns ==
    FormatPatterns \cup LoggerPatterns \cup LoggerWidthPatterns
    \cup {EndToEndPattern}

\* An InternalLoggingEvent.
LoggingEvent(ll, loggerName, message, file, line) ==
    [ll |-> ll, loggerName |-> loggerName, message |-> message,
     ndc |-> <<"n", "d", "c">>, thread |-> 7, file |-> file, line |-> line,
     clock_ticks |-> 5000000, timestamp |-> 3723, tzoffset |-> 3600]

StartedEvent ==
    LoggingEvent("INFO",
                 <<"c", "o", "m", ".", "a", "c", "m", "e", ".",
                   "S", "e", "r", "v", "i", "c", "e">>,
                 <<"s", "t", "a", "r", "t", "e", "d">>, NULL_FILE, -1)

\* The events of the exhaustive specification.
SpecEvents ==
    { LoggingEvent("INFO", <<"a", ".", "b", ".", "c">>, <<"h", "i">>,
                   NULL_FILE, -1),
      LoggingEvent("ERROR", <<"l", "o", "g">>, <<"f", "a", "i", "l", "e", "d">>,
                   <<"f", ".", "c">>, 12) }

\* The events of the rendering specification: every short message and every
\* short logger name over a letter and the dot.
RenderEvents ==
    {LoggingEvent("INFO", name, msg, NULL_FILE, -1) :
        name \in SeqsUpTo({"a", "."}, MaxNameLen),
        msg \in SeqsUpTo({"a", "b"}, MaxStrLen)}
    \cup {LoggingEvent(ll, name, <<"a">>, NULL_FILE, -1) :
        ll \in {"WARN", "ERROR"},
        name \in SeqsUpTo({"a", "."}, MaxNameLen)}
    \cup {StartedEvent}

NoEvent == [ll |-> "NONE"]

-----------------------------------------------------------------------------
(* The specifications.                                                     *)

\* The threads that share one layout.
NumThreads == 2
Threads == 1..NumThreads

\* A thread that is not inside formatAndAppend.
IdleCall == [phase |-> "idle", ev |-> NoEvent, i |-> 0, out |-> <<>>]

\* The static struct tm before any call of gmtime or localtime.
NoTm == [year |-> 0, mon |-> 0, mday |-> 0, hour |-> 0, min |-> 0, sec |-> 0]

\* The state after PatternParser(pattern) is constructed by init (lines
\* 438-443, 740-741), for a pattern of P on a platform of B.
InitOnPlatform(P, B) ==
    /\ platform \in B
    /\ tmbuf = NoTm
    /\ calls = [t \in Threads |-> IdleCall]
    /\ pattern \in P
    /\ pos = 0
    /\ state = "LITERAL_STATE"
    /\ currentLiteral = <<>>
    /\ formattingInfo = FormattingInfoReset
    /\ list = <<>>
    /\ parsedPattern = <<>>
    /\ diag = <<>>
    /\ pc = "parse"
    /\ event = NoEvent
    /\ output = <<>>

InitOn(P) == InitOnPlatform(P, {UsualPlatform})

\* A malformed specifier (a dot without a digit, an unknown letter) with
\* and without modifiers, followed by every remainder of Remainders.
MalformedFragments ==
    { <<"%", ".", "z">>, <<"%", "-", "2", ".", "z">>, <<"%", "z">>,
      <<"%", "-", "2", ".", "2", "z">>, <<"%", "2", ".", "-">> }

Remainders ==
    { <<"%", "m">>, <<"%", "2", "m">>, <<"z", "%", "c">>,
      <<"%", "c", "{", "2", "}">>, <<"%", "-", ".", "2", "c">>, <<"a">>,
      <<"%", "%">>, <<"%", "n", "%", "m">>, <<"%">>, <<"}", "%", "p">>,
      <<"%", ".", "z", "%", "m">> }

RecoveryPatterns == {f \o r : f \in MalformedFragments, r \in Remainders}

\* Every specifier letter, without and with modifiers, followed by no
\* option block, an empty one, a numeric one, a date format and an unclosed
\* block.
OptionTexts ==
    { <<>>, <<"{", "}">>, <<"{", "1", "3", "}">>,
      <<"{", "%", "H", ":", "%", "M", "}">>, <<"{", "2">> }

TablePatterns ==
    {SpecifierText(info, c, opt) :
        info \in {FormattingInfoReset,
                  [minLen |-> 12, maxLen |-> 10, leftAlign |-> TRUE]},
        c \in {"c", "d", "D", "F", "l", "L", "m", "n", "p", "r", "t", "x"},
        opt \in OptionTexts}

\* Option blocks followed by more braces and text.
OptionPatterns ==
    { <<"%", "c", "{", "1", "}", "{", "2", "}">>,
      <<"%", "d", "{", "%", "H", "}", "}">>,
      <<"%", "D", "{", "%", "M", "}", "%", "m", "}">>,
      <<"%", "c", "{", "1", "2", "}", "z">>,
      <<"%", "d", "{">>,
      <<"%", "2", "c", "z", "{", "1", "}">> }

\* Modifiers with several '-', leading zeros and several digits, alone and
\* behind another specifier.
ModifierPatterns ==
    { <<"%", "-", "-", "0", "7", ".", "3", "4", "m", "%", "5", "m">>,
      <<"%", "1", "0", "9", ".", "0", "6", "0", "p", "%", "c">>,
      <<"%", "-", ".", "0", "5", "c", "%", ".", "1", "m", "%", "-", "m">> }

\* Patterns whose end leaves a specifier incomplete, in each state of the
\* tokenizer, or whose last character is the escape character.
TailPatterns ==
    { <<"%", "-", "5">>,
      <<"a", "b", "%", "-", "5">>,
      <<"%", "m", "z", "%", "-", "5", ".">>,
      <<"%", "c", "{", "2", "}", "%", "5", ".", "1">>,
      <<"%", "p", " ", "%", "-">>,
      <<"%", "m", ":", " ", "%">> }

Init ==
    InitOn(ShortPatterns \cup LongPatterns \cup RecoveryPatterns
           \cup TablePatterns \cup OptionPatterns \cup ModifierPatterns
           \cup TailPatterns)

Next ==
    \/ LiteralStep
    \/ ConverterStep
    \/ MinStep
    \/ DotStep
    \/ MaxStep
    \/ ParseReturn
    \/ Validate
    \/ Render(SpecEvents)

Spec == Init /\ [][Next]_vars

InitRender == InitOn(RenderPatterns)

NextRender ==
    \/ LiteralStep
    \/ ConverterStep
    \/ MinStep
    \/ DotStep
    \/ MaxStep
    \/ ParseReturn
    \/ Validate
    \/ RenderOnce(RenderEvents)

SpecRender == InitRender /\ [][NextRender]_vars

\* One relative-time specifier for every FormattingInfo.
RelativeTimePatterns ==
    {SpecifierText(info, "r", <<>>) : info \in FormattingInfos}

\* Specifiers whose width digits leave the range of int: a minLen that
\* wraps to -2, a maxLen that wraps to -1 and to INT_MIN, and a minLen that
\* wraps below zero and is accumulated further.
OverflowPatterns ==
    { <<"%", "4", "2", "9", "4", "9", "6", "7", "2", "9", "4", "m">>,
      <<"%", ".", "4", "2", "9", "4", "9", "6", "7", "2", "9", "5", "m">>,
      <<"z", "%", ".", "2", "1", "4", "7", "4", "8", "3", "6", "4", "8", "m">>,
      <<"%", "-", "2", "1", "4", "7", "4", "8", "3", "6", "4", "8", "0", "c">> }

\* The specification of the platforms: every build, on the patterns whose
\* compilation or rendering depends on it.
InitPlatform ==
    InitOnPlatform(RelativeTimePatterns \cup OverflowPatterns, Platforms)

NextPlatform ==
    \/ LiteralStep
    \/ ConverterStep
    \/ MinStep
    \/ DotStep
    \/ MaxStep
    \/ ParseReturn
    \/ Validate
    \/ RenderOnce(SpecEvents)

SpecPlatform == InitPlatform /\ [][NextPlatform]_vars

\* The patterns and events of the concurrent callers: the date converters
\* in UTC and in local time, and converters of the other kinds with and
\* without modifiers; two events logged at different times.
ConcurrentPatterns ==
    { <<"%", "d", "{", "%", "H", ":", "%", "M", "}">>,
      <<"%", "D", "{", "%", "M", ":", "%", "S", "}", " ", "%", "m">>,
      <<"%", "d", "{", "%", "H", "}", "%", "D", "{", "%", "H", "}">>,
      <<"%", "m">>,
      <<"%", "-", "2", ".", "2", "c", "%", "n">>,
      <<"z", "%", "1", "2", ".", "1", "0", "p">> }

ConcurrentEvents ==
    { LoggingEvent("INFO", <<"a", ".", "b">>, <<"h", "i">>, NULL_FILE, -1),
      [LoggingEvent("WARN", <<"l", "o", "g">>, <<"l", "a", "t", "e">>,
                    NULL_FILE, -1) EXCEPT !.timestamp = 45296] }

InitConcurrent == InitOn(ConcurrentPatterns)

NextConcurrent ==
    \/ LiteralStep
    \/ ConverterStep
    \/ MinStep
    \/ DotStep
    \/ MaxStep
    \/ ParseReturn
    \/ Validate
    \/ \E t \in Threads : FormatEnter(t, ConcurrentEvents)
    \/ \E t \in Threads : FormatConverter(t)
    \/ \E t \in Threads : FormatStrftime(t)
    \/ \E t \in Threads : FormatReturn(t)

SpecConcurrent == InitConcurrent /\ [][NextConcurrent]_vars

-----------------------------------------------------------------------------
(* The width law of PatternConverter::formatAndAppend (C1, C2).            *)

\* A layout of exactly one converter has rendered an event.
RenderedOne == pc = "rendered" /\ Len(parsedPattern) = 1

\* The string the only converter of the layout extracts from the event.
Extracted == convert(parsedPattern[1], event)

IsSpaces(s) == \A i \in 1..Len(s) : s[i] = " "

\* C1: when the extracted string s is longer than the converter's maxWidth
\* M, the output is exactly the last M characters of s, and nothing else
\* (no padding).
C1_TruncationKeepsSuffix ==
    RenderedOne =>
        LET s == Extracted
            M == parsedPattern[1].maxLen
        IN  Len(s) > M =>
                /\ Len(output) = M
                /\ \A i \in 1..M : output[i] = s[Len(s) - M + i]

\* The message "aab" through a converter of maxWidth 2 has given "ab".
C1_Witness ==
    /\ RenderedOne
    /\ parsedPattern[1].kind = "Basic"
    /\ parsedPattern[1].maxLen = 2
    /\ event.message = <<"a", "a", "b">>
    /\ output = <<"a", "b">>

\* C2: when length(s) <= maxWidth and length(s) < minWidth the output is s
\* padded with spaces to exactly minWidth, the spaces after s when leftAlign
\* and before s otherwise; with minWidth = -1 no padding is ever added; with
\* minWidth <= length(s) <= maxWidth the output is s.
C2_PaddingLaw ==
    RenderedOne =>
        LET s == Extracted
            n == Len(s)
            m == parsedPattern[1].minLen
            M == parsedPattern[1].maxLen
            left == parsedPattern[1].leftAlign
        IN  /\ (n <= M /\ n < m) =>
                /\ Len(output) = m
                /\ left => /\ SubSeq(output, 1, n) = s
                           /\ IsSpaces(SubSeq(output, n + 1, m))
                /\ ~left => /\ SubSeq(output, m - n + 1, m) = s
                            /\ IsSpaces(SubSeq(output, 1, m - n))
            /\ m = -1 => /\ Len(output) <= n
                         /\ n <= M => output = s
            /\ (m <= n /\ n <= M) => output = s

\* The message "ab" through a left-aligned converter of minWidth 3 has
\* given "ab ".
C2_Witness ==
    /\ RenderedOne
    /\ parsedPattern[1].kind = "Basic"
    /\ parsedPattern[1].minLen = 3
    /\ parsedPattern[1].leftAlign
    /\ event.message = <<"a", "b">>
    /\ output = <<"a", "b", " ">>

-----------------------------------------------------------------------------
(* LoggerPatternConverter::convert (C3, C4).                               *)

\* A layout of one logger converter without width modifiers has rendered.
RenderedLogger ==
    /\ RenderedOne
    /\ parsedPattern[1].kind = "Logger"
    /\ parsedPattern[1].minLen = -1
    /\ parsedPattern[1].maxLen = INT_MAX

\* The positions (1-based) of the dots of a name, and of the dots before
\* its last character.
Dots(name) == {i \in 1..Len(name) : name[i] = "."}
InnerDots(name) == {i \in 1..(Len(name) - 1) : name[i] = "."}

\* The k-th position of S counted from the right.
KthFromRight(S, k) == CHOOSE d \in S : Cardinality({e \in S : e >= d}) = k

\* The suffix of name that starts one character after position d.
SuffixAfter(name, d) == SubSeq(name, d + 1, Len(name))

\* C3 as stated: for precision k > 0 and a name with at least k dots, the
\* result is the suffix after the k-th dot counted from the right end, also
\* for names that end with a dot.
C3_SuffixAfterKthDot ==
    RenderedLogger =>
        LET name == event.loggerName
            k == parsedPattern[1].precision
        IN  (k > 0 /\ Cardinality(Dots(name)) >= k) =>
                output = SuffixAfter(name, KthFromRight(Dots(name), k))

\* C3 amended: a dot in the last position of the name is never counted.
\* For precision k > 0 and a name with at least k dots before its last
\* character, the result is the suffix after the k-th of those dots counted
\* from the right.
C3_SuffixAfterKthInnerDot ==
    RenderedLogger =>
        LET name == event.loggerName
            k == parsedPattern[1].precision
        IN  (k > 0 /\ Cardinality(InnerDots(name)) >= k) =>
                output = SuffixAfter(name, KthFromRight(InnerDots(name), k))

\* The name "a.a." with precision 1 has given "a.", the trailing dot kept.
C3_Witness ==
    /\ RenderedLogger
    /\ parsedPattern[1].precision = 1
    /\ event.loggerName = <<"a", ".", "a", ".">>
    /\ output = <<"a", ".">>

\* C4: the full name is returned when precision <= 0 and when precision is
\* greater than the number of dots of the name, also for names that start
\* with a dot and for the empty name.
C4_FullNameCases ==
    RenderedLogger =>
        LET name == event.loggerName
            k == parsedPattern[1].precision
        IN  (k <= 0 \/ k > Cardinality(Dots(name))) => output = name

-----------------------------------------------------------------------------
(* Patterns without a specifier (C5).                                      *)

NoEscape(pat) == \A i \in 1..Len(pat) : pat[i] # ESCAPE_CHAR

\* C5 as stated: a pattern without '%', the empty pattern included, renders
\* as the pattern text for every event.
C5_LiteralPattern ==
    (pc = "rendered" /\ NoEscape(pattern)) => output = pattern

\* C5 amended: a non-empty pattern without '%' renders as the pattern text
\* for every event; the empty pattern renders the event's message, through
\* the default message converter PatternLayout::init substitutes.
C5_LiteralPatternOrDefault ==
    (pc = "rendered" /\ NoEscape(pattern)) =>
        IF pattern = <<>> THEN output = event.message ELSE output = pattern

\* The pattern "z-.2", all ordinary characters, has rendered as itself.
C5_Witness ==
    /\ pc = "rendered"
    /\ pattern = <<"z", "-", ".", "2">>
    /\ output = <<"z", "-", ".", "2">>

-----------------------------------------------------------------------------
(* A dot that no digit follows (C6).                                       *)

Contains(s, sub) ==
    \E i \in 0..(Len(s) - Len(sub)) : SubSeq(s, i + 1, i + Len(sub)) = sub

\* The pattern starts with '%', '.' and a character that is no digit.
StartsWithMalformedDot ==
    /\ Len(pattern) >= 3
    /\ pattern[1] = ESCAPE_CHAR
    /\ pattern[2] = "."
    /\ pattern[3] \notin Digits

\* C6: for a pattern that starts with "%." and a non-digit, reading the
\* non-digit leaves the tokenizer in the Literal state with one diagnostic
\* error for it, and the text of the discarded specifier is in no Literal
\* converter of the compiled sequence.
C6_MalformedDotDiscarded ==
    StartsWithMalformedDot =>
        /\ pos = 3 => state = "LITERAL_STATE"
        /\ pos >= 3 =>
              Cardinality({i \in 1..Len(diag) :
                              /\ diag[i].text = "Was expecting digit"
                              /\ diag[i].at = 3}) = 1
        /\ pc # "parse" =>
              \A i \in 1..Len(parsedPattern) :
                  parsedPattern[i].kind = "Literal" =>
                      ~Contains(parsedPattern[i].str, SubSeq(pattern, 1, 3))

-----------------------------------------------------------------------------
(* Escape pairs in the Literal state (C7).                                 *)

\* The tokenizer is about to read, in the Literal state, a '%' that is
\* followed by '%' or by 'n'.
AtEscapePair ==
    /\ pc = "parse"
    /\ state = "LITERAL_STATE"
    /\ pos + 1 < Len(pattern)
    /\ pattern[pos + 1] = ESCAPE_CHAR
    /\ pattern[pos + 2] \in {ESCAPE_CHAR, "n"}

\* Every '%' of the pattern starts an escape pair, %% or %n.
RECURSIVE OnlyEscapePairs(_)
OnlyEscapePairs(pat) ==
    IF pat = <<>> THEN TRUE
    ELSE IF Head(pat) # ESCAPE_CHAR THEN OnlyEscapePairs(Tail(pat))
    ELSE /\ Len(pat) >= 2
         /\ pat[2] \in {ESCAPE_CHAR, "n"}
         /\ OnlyEscapePairs(SubSeq(pat, 3, Len(pat)))

\* The text of such a pattern: one '%' for each %%, one newline for each %n.
RECURSIVE Unescaped(_)
Unescaped(pat) ==
    IF pat = <<>> THEN <<>>
    ELSE IF Head(pat) # ESCAPE_CHAR THEN <<Head(pat)>> \o Unescaped(Tail(pat))
    ELSE <<IF pat[2] = "n" THEN "\n" ELSE "%">>
         \o Unescaped(SubSeq(pat, 3, Len(pat)))

\* C7: in the Literal state, reading '%' followed by '%' appends exactly
\* one '%' to the pending literal, and '%' followed by 'n' exactly one
\* newline; both characters are consumed, no converter is created, the
\* state stays Literal and no diagnostic is logged; and a pattern whose
\* every '%' starts such a pair renders one '%' (one newline) for each pair.
C7_EscapePairs ==
    /\ [][AtEscapePair =>
            /\ currentLiteral' =
                   Append(currentLiteral,
                          IF pattern[pos + 2] = "n" THEN "\n" ELSE "%")
            /\ pos' = pos + 2
            /\ list' = list
            /\ state' = "LITERAL_STATE"
            /\ formattingInfo' = formattingInfo
            /\ diag' = diag]_vars
    /\ []((pc = "rendered" /\ pattern # <<>> /\ OnlyEscapePairs(pattern)) =>
            output = Unescaped(pattern))

\* The pattern "%%%n" has rendered as "%" and a newline.
C7_Witness ==
    /\ pc = "rendered"
    /\ pattern = <<"%", "%", "%", "n">>
    /\ output = <<"%", "\n">>

-----------------------------------------------------------------------------
(* The layout "%-5p %c{2}: %m%n" (C8).                                     *)

\* s followed by the spaces that bring it to at least n characters.
PaddedRight(s, n) == IF Len(s) < n THEN s \o spaces(n - Len(s)) ELSE s

\* The last k dot-segments of a name, a dot in the last position not being
\* a separator; the whole name when it has fewer segments.
LastSegments(name, k) ==
    IF Cardinality(InnerDots(name)) >= k
    THEN SuffixAfter(name, KthFromRight(InnerDots(name), k))
    ELSE name

StartedLine ==
    <<"I", "N", "F", "O", " ", " ", "a", "c", "m", "e", ".",
      "S", "e", "r", "v", "i", "c", "e", ":", " ",
      "s", "t", "a", "r", "t", "e", "d", "\n">>

\* C8: for every event, the layout compiled from "%-5p %c{2}: %m%n" renders
\* the level name right-padded to at least 5 characters, one space, the
\* last two dot-segments of the logger name, ": ", the message and a
\* newline; the event INFO / com.acme.Service / started gives
\* "INFO  acme.Service: started\n".
C8_EndToEnd ==
    (pc = "rendered" /\ pattern = EndToEndPattern) =>
        /\ output = PaddedRight(llmToString(event.ll), 5) \o <<" ">>
                    \o LastSegments(event.loggerName, 2) \o <<":", " ">>
                    \o event.message \o <<"\n">>
        /\ event = StartedEvent => output = StartedLine

\* The example of C8 alone: the event INFO / com.acme.Service / started.
C8_StartedExample ==
    (pc = "rendered" /\ pattern = EndToEndPattern /\ event = StartedEvent) =>
        output = StartedLine

-----------------------------------------------------------------------------
(* Specifier finalization (C9, C10).                                       *)

SpecifierLetters ==
    {"c", "d", "D", "F", "l", "L", "m", "n", "p", "r", "t", "x"}

\* The next character of the pattern.
NextChar == pattern[pos + 1]

\* The tokenizer is about to hand the next character to finalizeConverter.
Finalizes ==
    /\ pc = "parse"
    /\ pos < Len(pattern)
    /\ \/ state = "CONVERTER_STATE" /\ NextChar \notin Digits \cup {"-", "."}
       \/ state = "MIN_STATE" /\ NextChar \notin Digits \cup {"."}
       \/ state = "MAX_STATE" /\ NextChar \notin Digits

\* The position (1-based) of the last '%' among the characters read so far.
LastEscape == CHOOSE j \in 1..pos :
                 /\ pattern[j] = ESCAPE_CHAR
                 /\ \A i \in (j + 1)..pos : pattern[i] # ESCAPE_CHAR

\* C9: when finalization receives a character that is no specifier letter,
\* it logs one error and appends a Literal converter whose text is the
\* pattern from the introducing '%' through that character, with default
\* FormattingInfo; the pending literal is cleared and the state is Literal.
C9_UnknownSpecifierIsLiteral ==
    [][(Finalizes /\ NextChar \notin SpecifierLetters) =>
          /\ list' = Append(list,
                 [kind |-> "Literal", minLen |-> -1, maxLen |-> INT_MAX,
                  leftAlign |-> FALSE,
                  str |-> SubSeq(pattern, LastEscape, pos + 1)])
          /\ Len(diag') = Len(diag) + 1
          /\ diag'[Len(diag')].level = "error"
          /\ currentLiteral' = <<>>
          /\ state' = "LITERAL_STATE"
          /\ pos' = pos + 1]_vars

\* The pattern "%-2z" has compiled to the one literal "%-2z" and rendered
\* as that text, neither padded nor truncated.
C9_Witness ==
    /\ pc = "rendered"
    /\ pattern = <<"%", "-", "2", "z">>
    /\ Len(parsedPattern) = 1
    /\ parsedPattern[1].kind = "Literal"
    /\ parsedPattern[1].str = <<"%", "-", "2", "z">>
    /\ output = <<"%", "-", "2", "z">>
    /\ Len(diag) = 1

\* The next character is a c, d or D that finalization receives, followed by
\* a '{' that no '}' closes.
AtUnclosedOption ==
    /\ Finalizes
    /\ NextChar \in {"c", "d", "D"}
    /\ pos + 1 < Len(pattern)
    /\ pattern[pos + 2] = "{"
    /\ \A i \in (pos + 3)..Len(pattern) : pattern[i] # "}"

\* C10: every way a specifier fragment fails to become its converter logs at
\* least one diagnostic: a dot that no digit follows, an unknown letter and
\* an option block that is never closed log one in the step that meets
\* them, and a pattern that ends in the middle of a specifier has logged
\* one when the compilation returns.
C10_NoSilentError ==
    /\ [][(\/ (/\ pc = "parse"
               /\ pos < Len(pattern)
               /\ state = "DOT_STATE"
               /\ NextChar \notin Digits)
           \/ (Finalizes /\ NextChar \notin SpecifierLetters)
           \/ AtUnclosedOption) =>
             Len(diag') > Len(diag)]_vars
    /\ []((pc # "parse" /\ state # "LITERAL_STATE") => diag # <<>>)

-----------------------------------------------------------------------------
(* Relative time on a coarse clock (C11).                                  *)

\* The compiled layout has a relative-time converter.
HasRelativeTime ==
    \E i \in DOMAIN parsedPattern :
        /\ parsedPattern[i].kind = "Basic"
        /\ parsedPattern[i].type = "RELATIVE_TIME_CONVERTER"

CoarseClockDiagnostic ==
    \E i \in DOMAIN diag :
        diag[i].text = "RELATIVE_TIME will not display correctly"

\* C11: on a platform whose CLOCKS_PER_SEC is below 1000, a layout with a
\* relative-time converter has logged the diagnostic, and a render call
\* through it never fails: it completes, and the text of the converter is
\* decimal digits (behind its padding).
C11_CoarseClockRenders ==
    (/\ platform.clocks_per_sec < MILLIS_PER_SEC
     /\ pc \notin {"parse", "validate"}
     /\ HasRelativeTime)
    => /\ CoarseClockDiagnostic
       /\ pc \in {"ready", "rendered"}
       /\ pc = "rendered" =>
              /\ output # <<>>
              /\ \A i \in DOMAIN output : output[i] \in Digits \cup {" "}

-----------------------------------------------------------------------------
(* The sanitized layout (C12).                                             *)

\* PatternLayout::init has returned.
Constructed == pc \in {"ready", "rendered"}

DefaultMessageConverter ==
    [kind |-> "Basic", minLen |-> -1, maxLen |-> INT_MAX, leftAlign |-> FALSE,
     type |-> "MESSAGE_CONVERTER"]

\* C12: the tokenizer never appends a null converter; once the layout is
\* constructed its converter sequence is non-empty and has no null slot; the
\* tokenizer returns the empty sequence for the empty pattern only, and the
\* layout then holds exactly one message converter with default
\* FormattingInfo and the last diagnostic is the warning.
C12_SanitizedLayout ==
    /\ \A i \in DOMAIN list : list[i] # NULL_CONVERTER
    /\ Constructed =>
          /\ Len(parsedPattern) >= 1
          /\ \A i \in DOMAIN parsedPattern : parsedPattern[i] # NULL_CONVERTER
          /\ (list = <<>>) <=> (pattern = <<>>)
          /\ list # <<>> => parsedPattern = list
          /\ list = <<>> =>
                 /\ parsedPattern = <<DefaultMessageConverter>>
                 /\ diag # <<>>
                 /\ diag[Len(diag)].level = "warn"

\* The empty pattern has been compiled into the default layout.
C12_Witness ==
    /\ pc = "ready"
    /\ pattern = <<>>
    /\ parsedPattern = <<DefaultMessageConverter>>
    /\ diag[Len(diag)].level = "warn"

-----------------------------------------------------------------------------
(* Compilation always completes (C13).                                     *)

\* The indices of pattern that the next loop iteration reads: the current
\* character pattern.at(pos++) (line 486), the peek pattern.at(pos) behind
\* an escape character that is not the last character (line 493), and the
\* pattern.at(pos) of extractOption behind a c, d or D that is not the last
\* character (line 450).
AccessedIndices ==
    IF pc = "parse" /\ pos < Len(pattern)
    THEN {pos}
         \cup (IF /\ state = "LITERAL_STATE"
                  /\ pos + 1 # Len(pattern)
                  /\ NextChar = ESCAPE_CHAR
               THEN {pos + 1} ELSE {})
         \cup (IF /\ Finalizes
                  /\ NextChar \in {"c", "d", "D"}
                  /\ pos + 1 < Len(pattern)
               THEN {pos + 1} ELSE {})
    ELSE {}

\* C13: for every pattern the parse completes: the read position never
\* passes the end of the pattern and every character read is at an index
\* below the pattern length; every loop iteration strictly increases the
\* read position and stays in the parse (it neither throws nor aborts);
\* and at the end of the pattern the parse returns its converter sequence.
C13_CompilationCompletes ==
    /\ [](pc = "parse" =>
            /\ pos <= Len(pattern)
            /\ AccessedIndices \subseteq 0..(Len(pattern) - 1))
    /\ [][pc = "parse" /\ pos < Len(pattern) =>
              pos' > pos /\ pc' = "parse"]_vars
    /\ [][pc = "parse" /\ pos >= Len(pattern) =>
              pc' = "validate" /\ parsedPattern' = list']_vars

-----------------------------------------------------------------------------
(* Local recovery from a malformed specifier (C14).                        *)

\* The positions behind the offending character of every malformed
\* specifier that leave a non-empty remainder of the pattern: both errors
\* are logged with that position.
RecoveryPoints ==
    {k \in 1..(Len(pattern) - 1) :
        \E i \in DOMAIN diag :
            /\ diag[i].level = "error"
            /\ diag[i].text \in {"Was expecting digit", "Unexpected char"}
            /\ diag[i].at = k}

NonLiterals(convs) == SelectSeq(convs, LAMBDA conv : conv.kind # "Literal")

\* C14: a malformed specifier affects its own fragment only: when a layout
\* has rendered an event, then for every malformed specifier with a
\* non-empty remainder R behind its offending character, the output is the
\* text a layout compiled from the pattern up to that character renders,
\* followed by the text a layout compiled from R alone renders for the same
\* event, and the specifiers of R have the converters (variant, option and
\* FormattingInfo) they have in a layout compiled from R alone.
C14_LocalRecovery ==
    pc = "rendered" =>
        \A k \in RecoveryPoints :
            LET before == PatternLayoutInit(SubSeq(pattern, 1, k)).parsedPattern
                alone == PatternLayoutInit(
                             SubSeq(pattern, k + 1, Len(pattern))).parsedPattern
            IN  /\ output = LayoutFormat(before, event)
                                \o LayoutFormat(alone, event)
                /\ NonLiterals(parsedPattern) =
                       NonLiterals(before) \o NonLiterals(alone)

\* A dot without a digit behind the modifiers "-2", then a message
\* specifier: the fragment is rendered as it stands, the message without
\* the modifiers of the fragment.
C14_Witness ==
    /\ pc = "rendered"
    /\ pattern = <<"%", "-", "2", ".", "z", "%", "m">>
    /\ RecoveryPoints = {5}
    /\ event.message = <<"h", "i">>
    /\ output = <<"%", "-", "2", ".", "z", "h", "i">>

-----------------------------------------------------------------------------
(* Deterministic compilation (C16).                                        *)

\* The data members of the parser of this layout.
ParserNow ==
    [pattern |-> pattern, pos |-> pos, state |-> state,
     currentLiteral |-> currentLiteral, formattingInfo |-> formattingInfo,
     list |-> list, diag |-> diag, pc |-> pc]

-----------------------------------------------------------------------------
(* Rendering is read-only (C15).                                           *)

\* C15: once the layout is constructed, no step of a render call changes
\* the converter sequence (with every converter's FormattingInfo and
\* variant data) or the event of a call in progress; and under every
\* interleaving of the callers, a call that has returned has written to
\* its own stream exactly what the same call writes when it runs alone.
C15_RenderingReadOnly ==
    /\ [][pc = "ready" =>
              /\ parsedPattern' = parsedPattern
              /\ \A t \in Threads :
                     calls[t].phase # "idle" => calls'[t].ev = calls[t].ev]_vars
    /\ [](\A t \in Threads :
             calls[t].phase = "done" =>
                 calls[t].out = LayoutFormat(parsedPattern, calls[t].ev))

-----------------------------------------------------------------------------
(* The specifier table and the option block (C17, C20).                    *)

\* The tokenizer is about to finalize a specifier with a recognized letter.
FinalizesSpecifier == Finalizes /\ NextChar \in SpecifierLetters

\* The positions (1-based) of the '}' characters behind a '{' that follows
\* the specifier letter at once; empty when there is no such '{' or no '}'.
ClosingBraces ==
    IF pos + 2 <= Len(pattern) /\ pattern[pos + 2] = "{"
    THEN {j \in (pos + 3)..Len(pattern) : pattern[j] = "}"}
    ELSE {}

FirstClosingBrace == CHOOSE j \in ClosingBraces : \A i \in ClosingBraces : j <= i

\* The text of the option block behind the specifier letter, empty when
\* the block is absent or unclosed.
OptionText ==
    IF ClosingBraces = {} THEN <<>>
    ELSE SubSeq(pattern, pos + 3, FirstClosingBrace - 1)

\* The value of a string of decimal digits.
RECURSIVE DecimalValue(_)
DecimalValue(s) ==
    IF s = <<>> THEN 0
    ELSE DecimalValue(SubSeq(s, 1, Len(s) - 1)) * 10 + DigitVal(s[Len(s)])

IsDigitString(s) == s # <<>> /\ \A i \in DOMAIN s : s[i] \in Digits

\* The variant the table gives a letter that takes no option.
TableVariant(c) ==
    CASE c = "F" -> "FILE_CONVERTER"
      [] c = "l" -> "FULL_LOCATION_CONVERTER"
      [] c = "L" -> "LINE_CONVERTER"
      [] c = "m" -> "MESSAGE_CONVERTER"
      [] c = "n" -> "NEWLINE_CONVERTER"
      [] c = "p" -> "LOGLEVEL_CONVERTER"
      [] c = "r" -> "RELATIVE_TIME_CONVERTER"
      [] c = "t" -> "THREAD_CONVERTER"
      [] c = "x" -> "NDC_CONVERTER"

\* C17: finalizing a specifier with a recognized letter appends exactly one
\* converter, with the FormattingInfo accumulated for the specifier and the
\* variant of the table: c a logger-name converter whose precision is the
\* number in the option block (0 when the block is absent or empty), d a
\* date converter in UTC and D one in local time whose format is the option
\* text ("%Y-%m-%d %H:%M:%S" when absent or empty), and F, l, L, m, n, p,
\* r, t, x the basic converters for file, full location, line, message,
\* newline, level, relative time, thread and NDC.
C17_SpecifierTable ==
    [][FinalizesSpecifier =>
          /\ Len(list') = Len(list) + 1
          /\ SubSeq(list', 1, Len(list)) = list
          /\ LET conv == list'[Len(list')]
                 c == NextChar
             IN  /\ conv.minLen = formattingInfo.minLen
                 /\ conv.maxLen = formattingInfo.maxLen
                 /\ conv.leftAlign = formattingInfo.leftAlign
                 /\ c = "c" =>
                        /\ conv.kind = "Logger"
                        /\ OptionText = <<>> => conv.precision = 0
                        /\ IsDigitString(OptionText) =>
                               conv.precision = DecimalValue(OptionText)
                 /\ c \in {"d", "D"} =>
                        /\ conv.kind = "Date"
                        /\ conv.use_gmtime = (c = "d")
                        /\ conv.format = IF OptionText = <<>>
                                         THEN DefaultDateFormat
                                         ELSE OptionText
                 /\ c \notin {"c", "d", "D"} =>
                        /\ conv.kind = "Basic"
                        /\ conv.type = TableVariant(c)]_vars

\* A layout whose pattern has a local-time date specifier with modifiers
\* and a format option holds that converter.
C17_Witness ==
    /\ Constructed
    /\ pattern = <<"%", "-", "1", "2", ".", "1", "0", "D",
                   "{", "%", "H", ":", "%", "M", "}">>
    /\ parsedPattern =
           <<[kind |-> "Date", minLen |-> 12, maxLen |-> 10,
              leftAlign |-> TRUE, format |-> <<"%", "H", ":", "%", "M">>,
              use_gmtime |-> FALSE]>>

\* C20: behind a c, d or D, a '{' that follows at once and has a '}' after
\* it makes the option the text between the '{' and the first '}' behind
\* it, and the tokenizer goes on behind that '}'; with no '{' there or no
\* '}' behind it the option is absent (precision 0, the default date
\* format), the read position stays behind the letter and the tokenizer
\* goes on there in the literal state, so that the text from the '{' on is
\* ordinary pattern text.
C20_OptionBlock ==
    [][FinalizesSpecifier /\ NextChar \in {"c", "d", "D"} =>
          LET conv == list'[Len(list')]
          IN  /\ state' = "LITERAL_STATE"
              /\ currentLiteral' = <<>>
              /\ ClosingBraces # {} =>
                     /\ pos' = FirstClosingBrace
                     /\ NextChar # "c" /\ OptionText # <<>> =>
                            conv.format = SubSeq(pattern, pos + 3,
                                                 FirstClosingBrace - 1)
                     /\ NextChar = "c" /\ IsDigitString(OptionText) =>
                            conv.precision = DecimalValue(OptionText)
              /\ ClosingBraces = {} =>
                     /\ pos' = pos + 1
                     /\ NextChar = "c" => conv.precision = 0
                     /\ NextChar # "c" => conv.format = DefaultDateFormat]_vars

\* The first of two option blocks was taken as the precision and the
\* second is the pending literal text.
C20_Witness ==
    /\ pc = "parse"
    /\ pattern = <<"%", "c", "{", "1", "}", "{", "2", "}">>
    /\ pos = 8
    /\ Len(list) = 1
    /\ list[1].precision = 1
    /\ currentLiteral = <<"{", "2", "}">>

-----------------------------------------------------------------------------
(* Modifier parsing and the range of FormattingInfo (C18, C19).            *)

\* The modifiers of the specifier being finalized: the characters between
\* its '%' and its letter.
ModifierText == SubSeq(pattern, LastEscape + 1, pos)

HasDot == \E i \in DOMAIN ModifierText : ModifierText[i] = "."

DotIndex == CHOOSE i \in DOMAIN ModifierText : ModifierText[i] = "."

\* The digit string N in front of the dot and the digit string M behind it.
MinDigits ==
    SelectSeq(IF HasDot THEN SubSeq(ModifierText, 1, DotIndex - 1)
              ELSE ModifierText,
              LAMBDA ch : ch \in Digits)

MaxDigits ==
    IF HasDot THEN SubSeq(ModifierText, DotIndex + 1, Len(ModifierText))
    ELSE <<>>

\* A digit string without its leading zeros: the decimal text of its value.
RECURSIVE StripZeros(_)
StripZeros(s) ==
    IF Len(s) > 1 /\ Head(s) = "0" THEN StripZeros(Tail(s)) ELSE s

HasDefaultInfo(conv) ==
    conv.minLen = -1 /\ conv.maxLen = INT_MAX /\ conv.leftAlign = FALSE

\* C18: the converter of a specifier '%', '-'s, digits N, '.' digits M and a
\* recognized letter has leftAlign true exactly when a '-' is among its
\* modifiers, minLen the decimal value of N (-1 without N) and maxLen the
\* decimal value of M (INT_MAX without M), whatever specifiers, well-formed
\* or abandoned, precede it; and every Literal converter has the default
\* FormattingInfo.
C18_ModifiersWithoutLeakage ==
    /\ [][FinalizesSpecifier =>
              LET conv == list'[Len(list')]
              IN  /\ conv.leftAlign =
                         (\E i \in DOMAIN ModifierText : ModifierText[i] = "-")
                  /\ IF MinDigits = <<>> THEN conv.minLen = -1
                     ELSE /\ conv.minLen >= 0
                          /\ ToDec(conv.minLen) = StripZeros(MinDigits)
                  /\ IF ~HasDot THEN conv.maxLen = INT_MAX
                     ELSE /\ conv.maxLen >= 0
                          /\ ToDec(conv.maxLen) = StripZeros(MaxDigits)]_vars
    /\ [](\A i \in DOMAIN list :
             list[i].kind = "Literal" => HasDefaultInfo(list[i]))
    /\ [](\A i \in DOMAIN parsedPattern :
             parsedPattern[i].kind = "Literal" =>
                 HasDefaultInfo(parsedPattern[i]))

\* C19: every converter of the list the parse builds and of the compiled
\* sequence has minLen -1 or a natural number and maxLen at least 0, for
\* every pattern, the ones with digit strings above INT_MAX included.
C19_FormattingInfoRange ==
    /\ \A i \in DOMAIN list :
           list[i].minLen >= -1 /\ list[i].maxLen >= 0
    /\ \A i \in DOMAIN parsedPattern :
           parsedPattern[i].minLen >= -1 /\ parsedPattern[i].maxLen >= 0

-----------------------------------------------------------------------------
(* The end of the pattern (C21).                                           *)

\* The tokenizer reads the final character of the pattern in LITERAL_STATE.
ReadsFinalCharAsLiteral ==
    pc = "parse" /\ state = "LITERAL_STATE" /\ pos + 1 = Len(pattern)

\* The whole pattern has been read and the tokenizer is about to return.
AtEndOfInput == pc = "parse" /\ pos >= Len(pattern)

\* The end of the pattern has left a specifier incomplete.
EndsIncomplete ==
    state \in {"CONVERTER_STATE", "MIN_STATE", "DOT_STATE", "MAX_STATE"}

\* The raw text of the specifier the end of the pattern has left incomplete.
IncompleteTail == SubSeq(pattern, LastEscape, Len(pattern))

\* C21: in LITERAL_STATE the final character of the pattern is appended to
\* the pending literal whatever it is, '%' included; at the end of input a
\* non-empty pending literal becomes one last Literal converter and an empty
\* one adds nothing; when the end leaves a specifier incomplete that last
\* Literal is the raw text of the specifier from its '%' to the end of the
\* pattern, and the rendered output ends with that text.
C21_EndOfInputFlush ==
    /\ [][ReadsFinalCharAsLiteral =>
             /\ currentLiteral' = Append(currentLiteral, NextChar)
             /\ pos' = Len(pattern)
             /\ list' = list]_vars
    /\ [][AtEndOfInput =>
             /\ pc' = "validate"
             /\ parsedPattern' = list'
             /\ currentLiteral # <<>> =>
                   /\ Len(list') = Len(list) + 1
                   /\ SubSeq(list', 1, Len(list)) = list
                   /\ list'[Len(list')].kind = "Literal"
                   /\ list'[Len(list')].str = currentLiteral
                   /\ HasDefaultInfo(list'[Len(list')])
             /\ currentLiteral = <<>> => list' = list]_vars
    /\ [](pc \in {"validate", "ready", "rendered"} /\ EndsIncomplete =>
             /\ parsedPattern # <<>>
             /\ parsedPattern[Len(parsedPattern)].kind = "Literal"
             /\ parsedPattern[Len(parsedPattern)].str = IncompleteTail)
    /\ [](pc = "rendered" /\ EndsIncomplete =>
             /\ Len(output) >= Len(IncompleteTail)
             /\ SubSeq(output, Len(output) - Len(IncompleteTail) + 1,
                       Len(output)) = IncompleteTail)

\* The pattern "%-5", a specifier the end of the pattern leaves incomplete,
\* has rendered as the text "%-5".
C21_Witness ==
    /\ pc = "rendered"
    /\ pattern = <<"%", "-", "5">>
    /\ Len(parsedPattern) = 1
    /\ parsedPattern[1].kind = "Literal"
    /\ output = <<"%", "-", "5">>

-----------------------------------------------------------------------------
(* The width of the rendered text (C22).                                   *)

Max(a, b) == IF a >= b THEN a ELSE b

\* C22: for a converter with max(minLen, 0) <= maxLen the length of the text
\* formatAndAppend appends lies in [max(minLen, 0), maxLen]; with
\* minLen > maxLen the length is maxLen when the extracted string is longer
\* than maxLen and minLen otherwise; a truncated string is the last maxLen
\* characters of the extracted string, with no padding added.
C22_RenderedWidthBound ==
    RenderedOne =>
        LET s == Extracted
            n == Len(s)
            m == parsedPattern[1].minLen
            M == parsedPattern[1].maxLen
        IN  /\ Max(m, 0) <= M =>
                  Max(m, 0) <= Len(output) /\ Len(output) <= M
            /\ m > M => Len(output) = IF n > M THEN M ELSE m
            /\ n > M => output = SubSeq(s, n - M + 1, n)

\* The message "ab" through a converter of minWidth 3 and maxWidth 1 has
\* given "b": truncated to maxWidth and not padded.
C22_Witness ==
    /\ RenderedOne
    /\ parsedPattern[1].kind = "Basic"
    /\ parsedPattern[1].minLen = 3
    /\ parsedPattern[1].maxLen = 1
    /\ event.message = <<"a", "b">>
    /\ output = <<"b">>

====
